---- MODULE Spec2Model ----
(***************************************************************************)
(* TimelineService of src/src/timeline/timeline-server.mjs: one node of    *)
(* the distributed timeline.  The node runs on a single event loop, so an  *)
(* action is one run-to-completion segment of a handler: from its start,   *)
(* or from the resumption of an await, up to the next await or the return. *)
(* The peer directory, the transport and the remote peers are the          *)
(* environment: their answers are drawn from small sets.                   *)
(***************************************************************************)
EXTENDS Integers, Sequences, FiniteSets, TLC

(* ------------------------------ bounds --------------------------------- *)
\* greatest message timestamp
MaxTs == 2
\* greatest length of a timeline served or pushed by a peer
MaxLen == 2
\* greatest number of service calls (followUser, updateTimeline) started
MaxTasks == 1
\* greatest number of inbound pushes (PUT /timeline/:user)
MaxPush == 1

(* ------------------------------ universe ------------------------------- *)
\* this._timelineModel.userName
Self == "me"
OtherUsers == {"alice", "bob"}
Users == {Self} \cup OtherUsers

\* what the directory reports in a found-peer notification: the code keeps
\* host and port only
PeerInfos ==
    { [host |-> "h1", port |-> 1, id |-> "n1"],
      [host |-> "h2", port |-> 2, id |-> "n2"] }

Timestamps == 0..MaxTs
Message == [content : {"m"}, timestamp : Timestamps]

\* A timeline is ascending by timestamp: each message is later than the one
\* before it (spec, data model).
IsAscending(tl) ==
    \A i \in 1..(Len(tl) - 1) : tl[i].timestamp < tl[i + 1].timestamp

Timelines ==
    { tl \in UNION { [1..n -> Message] : n \in 0..MaxLen } : IsAscending(tl) }

\* a wire payload of PUT /timeline/:user: whether the signer accepts it for
\* the claimed user, and the timeline it carries
Payloads == [valid : BOOLEAN, timeline : Timelines]

(* ------------------------------- state --------------------------------- *)
VARIABLES
    timeline,          \* _timelineModel.timeline: the local timeline
    following,         \* _timelineModel.following: Map userName -> timeline
    pendingPeerFetch,  \* _pendingPeerFetch: Map hex key -> array reference
    arrays,            \* the arrays those references (and foundPeers) point to
    tasks,             \* the service calls started, each with its position
    requests,          \* transport requests issued (axios.get / axios.put)
    announces,         \* _peerFinder.announce calls made
    ingress,           \* the last inbound push handled, with its outcome
    nPush,             \* inbound pushes handled so far
    lastFound,         \* the last found-peer notification of the directory
    merged             \* what the last getMergedTimeline call returned

vars == << timeline, following, pendingPeerFetch, arrays, tasks, requests,
           announces, ingress, nPush, lastFound, merged >>

\* the variables that only record what was observed
observed == << lastFound, merged >>

(* ----------------------- collaborators (not in src) --------------------- *)
\* PeerFinder.hash(userName): the hex lookup key of a name
hash(userName) == << "hex", userName >>

\* infoHash.toString('hex')
toHex(infoHash) == << "hex", infoHash[2] >>

\* TimelineModel.getTimelineForUser(userName)
getTimelineForUser(fol, tl, userName) ==
    IF userName = Self THEN tl
    ELSE IF userName \in DOMAIN fol THEN fol[userName]
    ELSE << >>

\* TimelineModel.lastUpdated(userName): the trailing timestamp known locally
lastUpdated(fol, tl, userName) ==
    LET t == getTimelineForUser(fol, tl, userName)
    IN  IF Len(t) = 0 THEN 0 ELSE t[Len(t)].timestamp

\* TimelineModel.replaceTimeline(userName, timeline) and
\* TimelineModel.followUser(userName, content, key): one Map.set
setFollowed(fol, userName, tl) ==
    [ u \in DOMAIN fol \cup {userName} |->
        IF u = userName THEN tl ELSE fol[u] ]

\* extractSignedMessage(userName, keystore, timelineData): the timeline, or
\* an authenticity error
extractSignedMessage(payload) ==
    IF payload.valid THEN [ok |-> TRUE, timeline |-> payload.timeline]
    ELSE [ok |-> FALSE, timeline |-> << >>]

(* --------------------------- replaceTimeline ---------------------------- *)
\* timeline[timeline.length - 1].timestamp of a non-empty timeline
trailingTimestamp(tl) == tl[Len(tl)].timestamp

\* isStale with the comparison turned round
isStaleInverted(newTimelineLastUpdate, lastUpdate) ==
    newTimelineLastUpdate # 0 /\ newTimelineLastUpdate >= lastUpdate

\* line 126: newTimelineLastUpdate && newTimelineLastUpdate <= lastUpdate
\* (0 is falsy in JavaScript)
isStale(newTimelineLastUpdate, lastUpdate) ==
    newTimelineLastUpdate # 0 /\ newTimelineLastUpdate <= lastUpdate

\* replaceTimelineOutcome without the check of lines 121-123
replaceTimelineOutcomeNoSelfCheck(userName, payload, fol, tl) ==
    LET ex == extractSignedMessage(payload)
    IN  IF ~ex.ok THEN "AuthError"
        ELSE IF Len(ex.timeline) = 0 THEN "TypeError"
        ELSE IF isStale(trailingTimestamp(ex.timeline),
                        lastUpdated(fol, tl, userName)) THEN "false"
        ELSE "true"

\* replaceTimelineOutcome with the check of lines 121-123 moved before the
\* extraction of line 120
replaceTimelineOutcomeSelfFirst(userName, payload, fol, tl) ==
    LET ex == extractSignedMessage(payload)
    IN  IF userName = Self THEN "false"
        ELSE IF ~ex.ok THEN "AuthError"
        ELSE IF Len(ex.timeline) = 0 THEN "TypeError"
        ELSE IF isStale(trailingTimestamp(ex.timeline),
                        lastUpdated(fol, tl, userName)) THEN "false"
        ELSE "true"

\* lines 119-131: how replaceTimeline(userName, timelineData) ends:
\* "AuthError" (the rejection of extractSignedMessage propagates),
\* "TypeError" (timeline[-1] is undefined), "false" or "true"
replaceTimelineOutcome(userName, payload, fol, tl) ==
    LET ex == extractSignedMessage(payload)
    IN  IF ~ex.ok THEN "AuthError"
        ELSE IF userName = Self THEN "false"
        ELSE IF Len(ex.timeline) = 0 THEN "TypeError"
        ELSE IF isStale(trailingTimestamp(ex.timeline),
                        lastUpdated(fol, tl, userName)) THEN "false"
        ELSE "true"

\* PUT /timeline/:userName handled by replaceTimeline.  The await of line 120
\* reads no state of the service, so the call is one step.
ReplaceTimeline(userName, payload) ==
    /\ nPush < MaxPush
    /\ nPush' = nPush + 1
    /\ LET out == replaceTimelineOutcome(userName, payload, following, timeline)
       IN  /\ following' =
                IF out = "true"
                THEN setFollowed(following, userName, payload.timeline)
                ELSE following
           /\ ingress' =
                [userName |-> userName, payload |-> payload, outcome |-> out,
                 before |-> lastUpdated(following, timeline, userName)]
    /\ UNCHANGED << timeline, pendingPeerFetch, arrays, tasks, requests,
                    announces >>

(* ------------------------- discovery correlator ------------------------- *)
\* _anounceLookupForPeers keeping the list of a slot that is there
anounceKeepingSlot(userName) ==
    IF hash(userName) \in DOMAIN pendingPeerFetch
    THEN arrays' = arrays /\ pendingPeerFetch' = pendingPeerFetch
    ELSE /\ arrays' = Append(arrays, << >>)
         /\ pendingPeerFetch' =
              [ k \in DOMAIN pendingPeerFetch \cup {hash(userName)} |->
                  IF k = hash(userName) THEN Len(arrays) + 1
                  ELSE pendingPeerFetch[k] ]

\* lines 41-43: _anounceLookupForPeers sets the slot to a fresh empty array
anounceLookupForPeers(userName) ==
    /\ arrays' = Append(arrays, << >>)
    /\ pendingPeerFetch' =
         [ k \in DOMAIN pendingPeerFetch \cup {hash(userName)} |->
             IF k = hash(userName) THEN Len(arrays) + 1
             ELSE pendingPeerFetch[k] ]

\* the entry pushed being the peer as the directory reports it
peerAddressWhole(peer) == peer

\* lines 51-54: the entry pushed for a found peer
peerAddress(peer) == [host |-> peer.host, port |-> peer.port]

\* the peers of a list
Range(arr) == { arr[k] : k \in DOMAIN arr }

\* lines 45-55: _onPeerFound(peer, infoHash).  The directory notifies a peer
\* once for a lookup.
OnPeerFound(peer, infoHash) ==
    /\ toHex(infoHash) \in DOMAIN pendingPeerFetch
        => peerAddress(peer) \notin Range(arrays[pendingPeerFetch[toHex(infoHash)]])
    /\ arrays' =
         IF toHex(infoHash) \notin DOMAIN pendingPeerFetch
         THEN arrays
         ELSE [arrays EXCEPT ![pendingPeerFetch[toHex(infoHash)]] =
                 Append(@, peerAddress(peer))]
    /\ UNCHANGED << timeline, following, pendingPeerFetch, tasks, requests,
                    announces, ingress, nPush >>

(* ------------------------------- tasks ---------------------------------- *)
Pending == [state |-> "pending", value |-> "", of |-> ""]
resolved(v) == [state |-> "resolved", value |-> v, of |-> ""]
rejected(v) == [state |-> "rejected", value |-> v, of |-> ""]

\* a promise settles once: resolve and reject of a settled promise do nothing
settle(outcome, value) == IF outcome = Pending THEN value ELSE outcome

\* lines 92-94 and 138-140: the rejection the spec names NO_USER_FOUND
NO_USER_FOUND(userName) ==
    [state |-> "rejected", value |-> "Couldn't find user with name: ",
     of |-> userName]

NoHost == [host |-> "null", port |-> 0]
NoData == [content |-> << >>, key |-> "none"]

\* what the directory passes to the completion callback of a lookup
NoCompletion == [error |-> FALSE, nFoundClients |-> -1]
completion(error, nFoundClients) ==
    [error |-> error, nFoundClients |-> nFoundClients]

\* what GET /timeline/:userName answers
TimelineData == [content : Timelines, key : {"k1", "k2"}]

\* no signed snapshot, no posted message
NoSigned == [valid |-> FALSE, timeline |-> << >>]
NoMessage == [content |-> "none", timestamp |-> 0]

newTask(op, userName) ==
    [ op |-> op, userName |-> userName, pc |-> "lookup",
      completion |-> NoCompletion, foundPeers |-> 0,
      i |-> 0, local |-> 0, mostRecentTimelineUpdate |-> 0,
      mostRecentHost |-> NoHost, reports |-> << >>, fetched |-> NoData,
      outcome |-> Pending,
      caller |-> "api", signedTimeline |-> NoSigned, message |-> NoMessage,
      published |-> "undefined", returned |-> "none" ]

\* discoveryFailed without the test of the count
discoveryFailedErrorOnly(error, nFoundClients) == error

\* lines 91 and 137: error || nFoundClients === 0
discoveryFailed(error, nFoundClients) == error \/ nFoundClients = 0

\* hasNext stopping one short of the end
hasNextOffByOne(arr, i) == i + 1 < Len(arr)

\* for (const neigh of foundPeers): the iterator reads the length each round
hasNext(arr, i) == i < Len(arr)

request(t, method, path, neigh, userName) ==
    [ task |-> t, method |-> method, path |-> path, host |-> neigh.host,
      port |-> neigh.port, userName |-> userName, body |-> NoSigned ]

(* ------------------------------ followUser ------------------------------ *)
\* lines 87-90: the executor announces the lookup and issues it
FollowUser(userName) ==
    /\ Len(tasks) < MaxTasks
    /\ anounceLookupForPeers(userName)
    /\ tasks' = Append(tasks, newTask("follow", userName))
    /\ UNCHANGED << timeline, following, requests, announces, ingress, nPush >>

\* lines 99-101 and 106-110: the next round of the loop, or its end
followStep(t, task, i) ==
    IF hasNext(arrays[task.foundPeers], i)
    THEN /\ tasks' = [tasks EXCEPT ![t] = [task EXCEPT !.pc = "get", !.i = i + 1]]
         /\ requests' = Append(requests,
              request(t, "GET", "timeline",
                      arrays[task.foundPeers][i + 1], task.userName))
    ELSE /\ tasks' = [tasks EXCEPT ![t] =
              [task EXCEPT !.pc = "done",
                 !.outcome = settle(@, rejected("NO_AVAILABLE_PEER_FOUND"))]]
         /\ requests' = requests

\* lines 90-101: the completion callback of the lookup
FollowLookupDone(t, error, nFoundClients) ==
    /\ t \in DOMAIN tasks
    /\ tasks[t].op = "follow" /\ tasks[t].pc = "lookup"
    /\ IF discoveryFailed(error, nFoundClients)
       THEN /\ tasks' = [tasks EXCEPT ![t].pc = "done",
                 ![t].completion = completion(error, nFoundClients),
                 ![t].outcome = settle(@, NO_USER_FOUND(tasks[t].userName))]
            /\ requests' = requests
       ELSE followStep(t,
              [tasks[t] EXCEPT
                 !.completion = completion(error, nFoundClients),
                 !.foundPeers = pendingPeerFetch[hash(tasks[t].userName)]], 0)
    /\ UNCHANGED << timeline, following, pendingPeerFetch, arrays, announces,
                    ingress, nPush >>

\* followImport that stores nothing
followImportNothing(fol, userName, data) == fol

\* line 102: _timelineModel.followUser(userName, data.content, data.key)
followImport(fol, userName, data) == setFollowed(fol, userName, data.content)

\* lines 101-105: the fetch answered
FollowGetOk(t, data) ==
    /\ t \in DOMAIN tasks
    /\ tasks[t].op = "follow" /\ tasks[t].pc = "get"
    /\ following' = followImport(following, tasks[t].userName, data)
    /\ announces' = Append(announces, [task |-> t, userName |-> tasks[t].userName])
    /\ tasks' = [tasks EXCEPT ![t].pc = "done", ![t].fetched = data,
                    ![t].outcome = settle(@, resolved("FOUND_PEER"))]
    /\ UNCHANGED << timeline, pendingPeerFetch, arrays, requests, ingress, nPush >>

\* lines 106-110: the fetch failed
FollowGetFail(t) ==
    /\ t \in DOMAIN tasks
    /\ tasks[t].op = "follow" /\ tasks[t].pc = "get"
    /\ followStep(t, tasks[t], tasks[t].i)
    /\ UNCHANGED << timeline, following, pendingPeerFetch, arrays, announces,
                    ingress, nPush >>

(* ---------------------------- updateTimeline ---------------------------- *)
\* lines 133-136
UpdateTimeline(userName) ==
    /\ Len(tasks) < MaxTasks
    /\ anounceLookupForPeers(userName)
    /\ tasks' = Append(tasks, newTask("update", userName))
    /\ UNCHANGED << timeline, following, requests, announces, ingress, nPush >>

\* lines 146-149: the trailing timestamp of the local copy, 0 when empty
localLastUpdate(localTimeline) ==
    IF Len(localTimeline) # 0 THEN localTimeline[Len(localTimeline)].timestamp
    ELSE 0

\* isMoreRecent that lets a tie win
isMoreRecentOrEqual(timelineLastUpdate, mostRecentTimelineUpdate) ==
    timelineLastUpdate # 0 /\ timelineLastUpdate >= mostRecentTimelineUpdate

\* line 155: timelineLastUpdate && timelineLastUpdate > mostRecentTimelineUpdate
isMoreRecent(timelineLastUpdate, mostRecentTimelineUpdate) ==
    timelineLastUpdate # 0 /\ timelineLastUpdate > mostRecentTimelineUpdate

\* lines 152-154 and 164-169: the next round of the loop, or what follows it
updateStep(t, task, i) ==
    IF hasNext(arrays[task.foundPeers], i)
    THEN /\ tasks' = [tasks EXCEPT ![t] = [task EXCEPT !.pc = "meta", !.i = i + 1]]
         /\ requests' = Append(requests,
              request(t, "GET", "last-update",
                      arrays[task.foundPeers][i + 1], task.userName))
    ELSE IF task.mostRecentHost = NoHost
    THEN /\ tasks' = [tasks EXCEPT ![t] =
              [task EXCEPT !.pc = "done",
                 !.outcome = settle(@, resolved("DONE_UPDATE"))]]
         /\ requests' = requests
    ELSE /\ tasks' = [tasks EXCEPT ![t] = [task EXCEPT !.pc = "full"]]
         /\ requests' = Append(requests,
              request(t, "GET", "timeline", task.mostRecentHost, task.userName))

\* lines 136-154: the completion callback of the lookup
UpdateLookupDone(t, error, nFoundClients) ==
    /\ t \in DOMAIN tasks
    /\ tasks[t].op = "update" /\ tasks[t].pc = "lookup"
    /\ IF discoveryFailed(error, nFoundClients)
       THEN /\ tasks' = [tasks EXCEPT ![t].pc = "done",
                 ![t].completion = completion(error, nFoundClients),
                 ![t].outcome = settle(@, NO_USER_FOUND(tasks[t].userName))]
            /\ requests' = requests
       ELSE LET local == localLastUpdate(
                   getTimelineForUser(following, timeline, tasks[t].userName))
            IN  updateStep(t,
                  [tasks[t] EXCEPT
                     !.completion = completion(error, nFoundClients),
                     !.foundPeers = pendingPeerFetch[hash(tasks[t].userName)],
                     !.local = local,
                     !.mostRecentTimelineUpdate = local], 0)
    /\ UNCHANGED << timeline, following, pendingPeerFetch, arrays, announces,
                    ingress, nPush >>

\* lines 154-158: a last-update query answered
UpdateMetaOk(t, timelineLastUpdate) ==
    /\ t \in DOMAIN tasks
    /\ tasks[t].op = "update" /\ tasks[t].pc = "meta"
    /\ LET task == tasks[t]
           neigh == arrays[task.foundPeers][task.i]
           more == isMoreRecent(timelineLastUpdate, task.mostRecentTimelineUpdate)
       IN  updateStep(t,
             [task EXCEPT
                !.reports = Append(@, << "ok", timelineLastUpdate >>),
                !.mostRecentTimelineUpdate =
                    IF more THEN timelineLastUpdate ELSE @,
                !.mostRecentHost = IF more THEN neigh ELSE @], task.i)
    /\ UNCHANGED << timeline, following, pendingPeerFetch, arrays, announces,
                    ingress, nPush >>

\* lines 159-162: a last-update query failed: reject, and the loop goes on
UpdateMetaFail(t) ==
    /\ t \in DOMAIN tasks
    /\ tasks[t].op = "update" /\ tasks[t].pc = "meta"
    /\ updateStep(t,
         [tasks[t] EXCEPT
            !.reports = Append(@, << "failed", 0 >>),
            !.outcome = settle(@, rejected("UNEXPECTED_ERROR_WHILE_UPDATING"))],
         tasks[t].i)
    /\ UNCHANGED << timeline, following, pendingPeerFetch, arrays, announces,
                    ingress, nPush >>

\* lines 169-172: the full timeline of the most recent host arrived
UpdateFullOk(t, data) ==
    /\ t \in DOMAIN tasks
    /\ tasks[t].op = "update" /\ tasks[t].pc = "full"
    /\ following' = setFollowed(following, tasks[t].userName, data.content)
    /\ announces' = Append(announces, [task |-> t, userName |-> tasks[t].userName])
    /\ tasks' = [tasks EXCEPT ![t].pc = "done", ![t].fetched = data,
                    ![t].outcome = settle(@, resolved("DONE_UPDATE"))]
    /\ UNCHANGED << timeline, pendingPeerFetch, arrays, requests, ingress, nPush >>

\* line 169: the fetch failed: the callback throws, the promise is left as it is
UpdateFullFail(t) ==
    /\ t \in DOMAIN tasks
    /\ tasks[t].op = "update" /\ tasks[t].pc = "full"
    /\ tasks' = [tasks EXCEPT ![t].pc = "threw"]
    /\ UNCHANGED << timeline, following, pendingPeerFetch, arrays, requests,
                    announces, ingress, nPush >>

(* ------------------------------ propagation ----------------------------- *)
\* TimelineModel.publishMessage(message): the message is appended to the
\* local timeline; the outcome is a value the service hands back untested
PublishOutcomes == {"saved", "unsaved"}
publishMessage(tl, message) == Append(tl, message)

\* TimelineModel.getTimelineForUserSigned(userName): a snapshot the signer
\* of the user accepts, of the timeline held when it is called
getTimelineForUserSigned(fol, tl, userName) ==
    [valid |-> TRUE, timeline |-> getTimelineForUser(fol, tl, userName)]

\* postNewMessage signing before it publishes
signThenPublish(fol, tl, message) ==
    [ timeline |-> publishMessage(tl, message),
      signedTimeline |-> getTimelineForUserSigned(fol, tl, Self) ]

\* lines 62-63 and 68: publishMessage, then the call of
\* getTimelineForUserSigned at the head of _propagateTimeline
publishThenSign(fol, tl, message) ==
    LET published == publishMessage(tl, message)
    IN  [ timeline |-> published,
          signedTimeline |-> getTimelineForUserSigned(fol, published, Self) ]

\* line 68: _propagateTimeline up to its first await
propagateTask(caller, userName, signedTimeline) ==
    [ newTask("propagate", userName) EXCEPT
        !.pc = "sign", !.caller = caller, !.signedTimeline = signedTimeline ]

\* lines 61-63 and 68: postNewMessage up to the await of the signature.  The
\* clock of the store does not run backwards.
PostNewMessage(message, outcome) ==
    /\ message.timestamp >= localLastUpdate(timeline)
    /\ LET done == publishThenSign(following, timeline, message)
       IN  /\ timeline' = done.timeline
           /\ tasks' = Append(tasks,
                [ propagateTask("post", Self, done.signedTimeline) EXCEPT
                    !.message = message, !.published = outcome ])
    /\ UNCHANGED << following, pendingPeerFetch, arrays, requests, announces,
                    ingress, nPush >>

\* lines 70-71 and 84-85, then line 64: the signature is there; the lookup is
\* announced and issued, _propagateTimeline is over and its caller returns
PropagateSigned(t) ==
    /\ t \in DOMAIN tasks
    /\ tasks[t].op = "propagate" /\ tasks[t].pc = "sign"
    /\ anounceLookupForPeers(tasks[t].userName)
    /\ tasks' = [tasks EXCEPT ![t].pc = "lookup",
                    ![t].outcome = settle(@, resolved("undefined")),
                    ![t].returned = tasks[t].published]
    /\ UNCHANGED << timeline, following, requests, announces, ingress, nPush >>

\* what a PUT /timeline/:userName comes back with: accepted, refused with
\* 403, or failed otherwise
PutResults == {"2xx", "403", "failed"}

\* propagateStep that stops after the first peer
propagateStepFirstOnly(t, task, i) ==
    IF hasNext(arrays[task.foundPeers], i) /\ i = 0
    THEN /\ tasks' = [tasks EXCEPT ![t] = [task EXCEPT !.pc = "put", !.i = i + 1]]
         /\ requests' = Append(requests,
              [ request(t, "PUT", "timeline",
                        arrays[task.foundPeers][i + 1], task.userName)
                EXCEPT !.body = task.signedTimeline ])
    ELSE /\ tasks' = [tasks EXCEPT ![t] = [task EXCEPT !.pc = "done"]]
         /\ requests' = requests

\* lines 76-78: the next round of the loop with its PUT, or the end
propagateStep(t, task, i) ==
    IF hasNext(arrays[task.foundPeers], i)
    THEN /\ tasks' = [tasks EXCEPT ![t] = [task EXCEPT !.pc = "put", !.i = i + 1]]
         /\ requests' = Append(requests,
              [ request(t, "PUT", "timeline",
                        arrays[task.foundPeers][i + 1], task.userName)
                EXCEPT !.body = task.signedTimeline ])
    ELSE /\ tasks' = [tasks EXCEPT ![t] = [task EXCEPT !.pc = "done"]]
         /\ requests' = requests

\* lines 72-78: the completion callback of the lookup of _propagateTimeline
PropagateLookupDone(t, error, nFoundClients) ==
    /\ t \in DOMAIN tasks
    /\ tasks[t].op = "propagate" /\ tasks[t].pc = "lookup"
    /\ IF discoveryFailed(error, nFoundClients)
       THEN /\ tasks' = [tasks EXCEPT ![t].pc = "done",
                 ![t].completion = completion(error, nFoundClients)]
            /\ requests' = requests
       ELSE propagateStep(t,
              [tasks[t] EXCEPT
                 !.completion = completion(error, nFoundClients),
                 !.foundPeers = pendingPeerFetch[hash(tasks[t].userName)]], 0)
    /\ UNCHANGED << timeline, following, pendingPeerFetch, arrays, announces,
                    ingress, nPush >>

\* lines 78-83: a PUT came back; a failure is caught and the loop goes on
PropagatePutDone(t, result) ==
    /\ t \in DOMAIN tasks
    /\ tasks[t].op = "propagate" /\ tasks[t].pc = "put"
    /\ propagateStep(t,
         [tasks[t] EXCEPT !.reports = Append(@, << result, 0 >>)], tasks[t].i)
    /\ UNCHANGED << timeline, following, pendingPeerFetch, arrays, announces,
                    ingress, nPush >>

(* ----------------------------- syncTimeline ----------------------------- *)
\* the orders in which a Map can hand out the given keys
keyOrders(keys) ==
    { order \in [1..Cardinality(keys) -> keys] :
        \A i, j \in DOMAIN order : order[i] = order[j] => i = j }

\* lines 178-181: the executor of updateTimeline (lines 134-136) runs for
\* the given users in turn, then _propagateTimeline(userName) runs up to its
\* first await
startPulls(order) ==
    /\ arrays' = arrays \o [k \in DOMAIN order |-> << >>]
    /\ pendingPeerFetch' =
         [ h \in DOMAIN pendingPeerFetch \cup { hash(order[k]) : k \in DOMAIN order } |->
             IF \E k \in DOMAIN order : hash(order[k]) = h
             THEN Len(arrays) + (CHOOSE k \in DOMAIN order : hash(order[k]) = h)
             ELSE pendingPeerFetch[h] ]
    /\ tasks' = tasks \o [k \in DOMAIN order |-> newTask("update", order[k])]
                      \o << propagateTask("sync", Self,
                              getTimelineForUserSigned(following, timeline, Self)) >>

\* syncTimeline leaving the loop after its first round
SyncTimelineFirstOnly(order) ==
    /\ order \in keyOrders(DOMAIN following)
    /\ startPulls(SubSeq(order, 1, IF order = << >> THEN 0 ELSE 1))
    /\ UNCHANGED << timeline, following, requests, announces, ingress, nPush >>

\* lines 177-181: syncTimeline up to the await of the signature, the keys of
\* following handed out in the order of the Map
SyncTimeline(order) ==
    /\ order \in keyOrders(DOMAIN following)
    /\ startPulls(order)
    /\ UNCHANGED << timeline, following, requests, announces, ingress, nPush >>

(* --------------------------- getMergedTimeline -------------------------- *)
\* lines 197-200 and 202-205: { ...elem, userName }
tag(elem, userName) ==
    [content |-> elem.content, timestamp |-> elem.timestamp, userName |-> userName]

tagAll(tl, userName) == [k \in DOMAIN tl |-> tag(tl[k], userName)]

\* the comparator with its operands exchanged
compareDescending(a, b) == b.timestamp - a.timestamp

\* line 207: (a, b) => a.timestamp - b.timestamp
compare(a, b) == a.timestamp - b.timestamp

Front(arr) == SubSeq(arr, 1, Len(arr) - 1)
Last(arr) == arr[Len(arr)]

\* Array.prototype.sort: a stable sort by the comparator
RECURSIVE insert(_, _)
insert(sorted, elem) ==
    IF sorted = << >> THEN << elem >>
    ELSE IF compare(Last(sorted), elem) <= 0 THEN Append(sorted, elem)
    ELSE Append(insert(Front(sorted), elem), Last(sorted))

RECURSIVE sort(_)
sort(arr) ==
    IF arr = << >> THEN << >> ELSE insert(sort(Front(arr)), Last(arr))

\* lines 201-206: following.forEach pushes the followed timelines in the
\* order of the Map
RECURSIVE pushFollowed(_, _, _)
pushFollowed(mergedTimeline, fol, order) ==
    IF order = << >> THEN mergedTimeline
    ELSE pushFollowed(mergedTimeline \o tagAll(fol[Head(order)], Head(order)),
                      fol, Tail(order))

\* lines 196-209
getMergedTimeline(fol, tl, order) ==
    sort(pushFollowed(tagAll(tl, Self), fol, order))

GetMergedTimeline(order) ==
    /\ order \in keyOrders(DOMAIN following)
    /\ merged' = [called |-> TRUE, order |-> order,
                  mergedTimeline |-> getMergedTimeline(following, timeline, order)]
    /\ UNCHANGED << timeline, following, pendingPeerFetch, arrays, tasks,
                    requests, announces, ingress, nPush, lastFound >>

(* ---------------------------- specifications ---------------------------- *)
NoCall == [userName |-> "none", payload |-> [valid |-> FALSE, timeline |-> << >>],
           outcome |-> "none", before |-> 0]

NoFound == [peer |-> [host |-> "null", port |-> 0, id |-> "null"],
            infoHash |-> << "buf", "none" >>]
NoMerged == [called |-> FALSE, order |-> << >>, mergedTimeline |-> << >>]

Init ==
    /\ timeline = << >>
    /\ following = << >>
    /\ pendingPeerFetch = << >>
    /\ arrays = << >>
    /\ tasks = << >>
    /\ requests = << >>
    /\ announces = << >>
    /\ ingress = NoCall
    /\ nPush = 0
    /\ lastFound = NoFound
    /\ merged = NoMerged

TaskIds == 1..MaxTasks
\* the counts a lookup completes with: none, some
PeerCounts == {0, 1}
hashOf(users) == { << "buf", u >> : u \in users \cup {"carol"} }

\* the user whose timeline is pulled while pushes for it arrive
Pulled == {"bob"}

\* the followed copies a node can hold
Stores ==
    UNION { [S -> Timelines] : S \in SUBSET OtherUsers }

\* inbound pushes only, to a node that holds any followed copies
InitIngress ==
    /\ timeline = << >>
    /\ following \in Stores
    /\ pendingPeerFetch = << >>
    /\ arrays = << >>
    /\ tasks = << >>
    /\ requests = << >>
    /\ announces = << >>
    /\ ingress = NoCall
    /\ nPush = 0
    /\ lastFound = NoFound
    /\ merged = NoMerged

NextIngress ==
    \E u \in Users, p \in Payloads :
        ReplaceTimeline(u, p) /\ UNCHANGED observed

SpecIngress == InitIngress /\ [][NextIngress]_vars

\* the user followUser is called for
Followed == {"alice"}

\* followUser calls and the directory's notifications
NextFollow ==
    \/ \E peer \in PeerInfos, h \in hashOf(Followed) :
          OnPeerFound(peer, h) /\ UNCHANGED observed
    \/ \E u \in Followed : FollowUser(u) /\ UNCHANGED observed
    \/ \E t \in TaskIds, e \in BOOLEAN, n \in PeerCounts :
          FollowLookupDone(t, e, n) /\ UNCHANGED observed
    \/ \E t \in TaskIds, d \in TimelineData :
          FollowGetOk(t, d) /\ UNCHANGED observed
    \/ \E t \in TaskIds : FollowGetFail(t) /\ UNCHANGED observed

SpecFollow == Init /\ [][NextFollow]_vars

\* one updateTimeline call for one user, interleaved with the directory's
\* notifications and with inbound pushes for that user
NextSync ==
    \/ \E peer \in PeerInfos, h \in hashOf(Pulled) :
          OnPeerFound(peer, h) /\ UNCHANGED observed
    \/ \E u \in Pulled, p \in Payloads :
          ReplaceTimeline(u, p) /\ UNCHANGED observed
    \/ \E u \in Pulled :
          tasks = << >> /\ UpdateTimeline(u) /\ UNCHANGED observed
    \/ \E t \in TaskIds, e \in BOOLEAN, n \in PeerCounts :
          UpdateLookupDone(t, e, n) /\ UNCHANGED observed
    \/ \E t \in TaskIds, v \in Timestamps :
          UpdateMetaOk(t, v) /\ UNCHANGED observed
    \/ \E t \in TaskIds : UpdateMetaFail(t) /\ UNCHANGED observed
    \/ \E t \in TaskIds, d \in TimelineData :
          d.key = "k1" /\ UpdateFullOk(t, d) /\ UNCHANGED observed
    \/ \E t \in TaskIds : UpdateFullFail(t) /\ UNCHANGED observed

SpecSync == Init /\ [][NextSync]_vars

\* _onPeerFound as the directory calls it, with the call recorded
Notify(peer, infoHash) ==
    /\ OnPeerFound(peer, infoHash)
    /\ lastFound' = [peer |-> peer, infoHash |-> infoHash]
    /\ UNCHANGED merged

\* the calls of one entry point that have been made
calls(caller) == { t \in DOMAIN tasks : tasks[t].caller = caller }

\* one postNewMessage call and one syncTimeline call of a node that follows
\* nobody, their propagations overlapping, interleaved with the directory's
\* notifications
NextPropagate ==
    \/ \E peer \in PeerInfos, h \in hashOf({Self}) :
          OnPeerFound(peer, h) /\ UNCHANGED observed
    \/ \E m \in Message, o \in PublishOutcomes :
          calls("post") = {} /\ PostNewMessage(m, o) /\ UNCHANGED observed
    \/ \E order \in keyOrders(DOMAIN following) :
          calls("sync") = {} /\ SyncTimeline(order) /\ UNCHANGED observed
    \/ \E t \in DOMAIN tasks : PropagateSigned(t) /\ UNCHANGED observed
    \/ \E t \in DOMAIN tasks, e \in BOOLEAN, n \in PeerCounts :
          PropagateLookupDone(t, e, n) /\ UNCHANGED observed
    \/ \E t \in DOMAIN tasks, r \in PutResults :
          PropagatePutDone(t, r) /\ UNCHANGED observed

\* no call is under way
idle == \A t \in DOMAIN tasks : tasks[t].pc \in {"done", "threw"}

\* one postNewMessage call and one syncTimeline call of a node that follows
\* nobody, one after the other, with every notification of the directory
\* recorded
NextDiscovery ==
    \/ \E peer \in PeerInfos, h \in hashOf({Self}) : Notify(peer, h)
    \/ \E m \in Message, o \in PublishOutcomes :
          /\ idle /\ calls("post") = {}
          /\ PostNewMessage(m, o) /\ UNCHANGED observed
    \/ \E order \in keyOrders(DOMAIN following) :
          /\ idle /\ calls("sync") = {}
          /\ SyncTimeline(order) /\ UNCHANGED observed
    \/ \E t \in DOMAIN tasks : PropagateSigned(t) /\ UNCHANGED observed
    \/ \E t \in DOMAIN tasks, e \in BOOLEAN, n \in PeerCounts :
          PropagateLookupDone(t, e, n) /\ UNCHANGED observed
    \/ \E t \in DOMAIN tasks, r \in PutResults :
          PropagatePutDone(t, r) /\ UNCHANGED observed

SpecDiscovery == Init /\ [][NextDiscovery]_vars

\* a node that follows users whose timelines it holds no message of
InitAntiEntropy ==
    /\ timeline = << >>
    /\ following \in { f \in Stores : \A u \in DOMAIN f : f[u] = << >> }
    /\ pendingPeerFetch = << >>
    /\ arrays = << >>
    /\ tasks = << >>
    /\ requests = << >>
    /\ announces = << >>
    /\ ingress = NoCall
    /\ nPush = 0
    /\ lastFound = NoFound
    /\ merged = NoMerged

\* the peer the directory finds in the scenario of syncTimeline
SyncPeers == { peer \in PeerInfos : peer.id = "n1" }

\* what the peer answers in the scenario of syncTimeline: it holds nothing,
\* or one message of the latest time
SyncReports == {0, MaxTs}
SyncData ==
    { d \in TimelineData :
        d.key = "k1" /\ Len(d.content) = 1 /\ d.content[1].timestamp = MaxTs }

\* one syncTimeline call: the pulls of the followed users and the propagation
\* run side by side
NextAntiEntropy ==
    \/ \E peer \in SyncPeers, h \in hashOf(Users) :
          OnPeerFound(peer, h) /\ UNCHANGED observed
    \/ \E order \in keyOrders(DOMAIN following) :
          tasks = << >> /\ SyncTimeline(order) /\ UNCHANGED observed
    \/ \E t \in DOMAIN tasks, e \in BOOLEAN, n \in PeerCounts :
          UpdateLookupDone(t, e, n) /\ UNCHANGED observed
    \/ \E t \in DOMAIN tasks, v \in SyncReports :
          UpdateMetaOk(t, v) /\ UNCHANGED observed
    \/ \E t \in DOMAIN tasks : UpdateMetaFail(t) /\ UNCHANGED observed
    \/ \E t \in DOMAIN tasks, d \in SyncData :
          UpdateFullOk(t, d) /\ UNCHANGED observed
    \/ \E t \in DOMAIN tasks : UpdateFullFail(t) /\ UNCHANGED observed
    \/ \E t \in DOMAIN tasks : PropagateSigned(t) /\ UNCHANGED observed
    \/ \E t \in DOMAIN tasks, e \in BOOLEAN, n \in PeerCounts :
          PropagateLookupDone(t, e, n) /\ UNCHANGED observed
    \/ \E t \in DOMAIN tasks, r \in PutResults :
          PropagatePutDone(t, r) /\ UNCHANGED observed

SpecAntiEntropy == InitAntiEntropy /\ [][NextAntiEntropy]_vars

\* the local timelines a node can hold: the clock of its posts does not run
\* backwards
LocalTimelines ==
    { tl \in UNION { [1..n -> Message] : n \in 0..MaxLen } :
        \A i \in 1..(Len(tl) - 1) : tl[i].timestamp <= tl[i + 1].timestamp }

InitMerge ==
    /\ timeline \in LocalTimelines
    /\ following \in Stores
    /\ pendingPeerFetch = << >>
    /\ arrays = << >>
    /\ tasks = << >>
    /\ requests = << >>
    /\ announces = << >>
    /\ ingress = NoCall
    /\ nPush = 0
    /\ lastFound = NoFound
    /\ merged = NoMerged

\* getMergedTimeline of a node that holds any timelines
NextMerge ==
    \E order \in keyOrders(DOMAIN following) : GetMergedTimeline(order)

SpecMerge == InitMerge /\ [][NextMerge]_vars

SpecPropagate == Init /\ [][NextPropagate]_vars

(* ------------------------- claims: replaceTimeline ---------------------- *)
\* the step is an inbound push
Pushed == nPush' # nPush

\* the push of this step carries a verified, non-empty timeline for a user
\* other than this node
VerifiedPush ==
    /\ Pushed
    /\ ingress'.userName # Self
    /\ ingress'.payload.valid
    /\ Len(ingress'.payload.timeline) > 0

StoreUnchanged == following' = following /\ timeline' = timeline

\* C1: a verified payload for another user whose trailing timestamp is less
\* than or equal to lastUpdated(u) is refused with false and changes nothing,
\* whatever the timestamp, 0 included.
C1_StaleIsNoOp ==
    [][ ( /\ VerifiedPush
          /\ trailingTimestamp(ingress'.payload.timeline) <= ingress'.before )
        => (ingress'.outcome = "false" /\ StoreUnchanged) ]_vars

\* C2 as stated: replaceTimeline(selfName, payload) returns false for every
\* payload, an invalid signature included.
C2_SelfAlwaysFalse ==
    ingress.userName = Self => ingress.outcome = "false"

\* C2 as amended: replaceTimeline(selfName, payload) commits no replacement
\* for any payload; it returns false when the payload verifies and ends in
\* the authenticity error when it does not.
C2_SelfNeverReplaced ==
    [][ (Pushed /\ ingress'.userName = Self)
        => /\ StoreUnchanged
           /\ ingress'.outcome =
                IF ingress'.payload.valid THEN "false" ELSE "AuthError" ]_vars

\* a verified, fresh, non-empty push addressed to this node itself was refused
C2_Witness ==
    /\ ingress.userName = Self
    /\ ingress.payload.valid
    /\ Len(ingress.payload.timeline) > 0
    /\ trailingTimestamp(ingress.payload.timeline) > ingress.before
    /\ ingress.outcome = "false"

\* C8: a verified payload for another user whose trailing timestamp is
\* strictly greater than lastUpdated(u) is accepted with true; afterwards the
\* followed copy of u is the extracted timeline and lastUpdated(u) is the
\* payload's trailing timestamp.
C8_FreshIsCommitted ==
    [][ ( /\ VerifiedPush
          /\ trailingTimestamp(ingress'.payload.timeline) > ingress'.before )
        => /\ ingress'.outcome = "true"
           /\ ingress'.userName \in DOMAIN following'
           /\ following'[ingress'.userName] = ingress'.payload.timeline
           /\ lastUpdated(following', timeline', ingress'.userName) =
                trailingTimestamp(ingress'.payload.timeline)
           /\ \A u \in DOMAIN following :
                u # ingress'.userName => following'[u] = following[u] ]_vars

\* the boundary: lastUpdated(u) was 1 and a push with timestamp 2 was accepted
C8_Witness ==
    /\ ingress.userName \in OtherUsers
    /\ ingress.payload.valid
    /\ ingress.before = 1
    /\ Len(ingress.payload.timeline) = 2
    /\ trailingTimestamp(ingress.payload.timeline) = 2
    /\ ingress.outcome = "true"

\* C9: a payload that fails verification ends replaceTimeline in the
\* authenticity error, for every user and every content (before the self
\* check, the staleness check and the replacement), and changes nothing.
C9_AuthErrorPropagates ==
    [][ (Pushed /\ ~ingress'.payload.valid)
        => (ingress'.outcome = "AuthError" /\ StoreUnchanged) ]_vars

\* an unverifiable push that would otherwise be fresh was refused with the
\* error, and so was one addressed to this node itself
C9_Witness ==
    /\ ~ingress.payload.valid
    /\ ingress.outcome = "AuthError"
    /\ ingress.userName = Self
    /\ Len(ingress.payload.timeline) > 0
    /\ trailingTimestamp(ingress.payload.timeline) > ingress.before

(* --------------------------- claims: followUser ------------------------- *)
\* the transport requests and the announces of one call, in the order made
requestsBy(t) == SelectSeq(requests, LAMBDA r : r.task = t)
announcesBy(t) == SelectSeq(announces, LAMBDA a : a.task = t)

\* one GET /timeline/:userName to each of the first n peers of the list the
\* call iterates, in the order of the list
fetchesInOrder(t, n) ==
    [ k \in 1..n |->
        [ task |-> t, method |-> "GET", path |-> "timeline",
          host |-> arrays[tasks[t].foundPeers][k].host,
          port |-> arrays[tasks[t].foundPeers][k].port,
          userName |-> tasks[t].userName, body |-> NoSigned ] ]

FollowTasks == { t \in DOMAIN tasks : tasks[t].op = "follow" }

\* what holds of a followUser call that resolved FOUND_PEER at peer number i
FoundPeerState(t) ==
    tasks[t].outcome = resolved("FOUND_PEER")
    => /\ tasks[t].pc = "done"
       /\ tasks[t].i >= 1
       /\ requestsBy(t) = fetchesInOrder(t, tasks[t].i)
       /\ announcesBy(t) = << [task |-> t, userName |-> tasks[t].userName] >>

\* C5: followUser with discovered peers fetches from the peers in discovery
\* order and stops at the first fetch that succeeds: it resolves FOUND_PEER,
\* the followed timeline of the user is then the content fetched from that
\* peer, self is announced for the user, and no later peer is contacted.
C5_FollowFirstSuccess ==
    [][ \A t \in FollowTasks :
          /\ tasks'[t].op = "follow" => FoundPeerState(t)'
          /\ (tasks[t].pc = "get" /\ tasks'[t].fetched # NoData)
             => /\ tasks'[t].outcome = resolved("FOUND_PEER")
                /\ tasks'[t].i = tasks[t].i
                /\ tasks[t].userName \in DOMAIN following'
                /\ following'[tasks[t].userName] = tasks'[t].fetched.content
                /\ requests' = requests ]_vars

\* a call resolved FOUND_PEER at the second peer of its list, after the first
\* one failed, and the followed copy is what that peer served
C5_Witness ==
    \E t \in FollowTasks :
        /\ tasks[t].outcome = resolved("FOUND_PEER")
        /\ tasks[t].i = 2
        /\ Len(requestsBy(t)) = 2
        /\ Len(tasks[t].fetched.content) > 0
        /\ following[tasks[t].userName] = tasks[t].fetched.content

\* C6: followUser whose lookup completes with an error or with a count of 0
\* ends in the one outcome NO_USER_FOUND (the rejection of lines 92-94),
\* issues no transport request, announces nothing and leaves the store as it
\* is.
C6_NoUserFound ==
    [][ \A t \in FollowTasks :
          LET c == tasks'[t].completion
          IN  (c # NoCompletion /\ (c.error \/ c.nFoundClients = 0))
              => /\ tasks'[t].pc = "done"
                 /\ tasks'[t].outcome = NO_USER_FOUND(tasks[t].userName)
                 /\ requestsBy(t)' = << >>
                 /\ announcesBy(t)' = << >>
                 /\ (tasks[t].pc = "lookup"
                       => (StoreUnchanged /\ requests' = requests
                           /\ announces' = announces)) ]_vars

\* a lookup that had notified a peer completed with a count of 0
C6_Witness ==
    \E t \in FollowTasks :
        /\ tasks[t].completion = completion(FALSE, 0)
        /\ Len(arrays[pendingPeerFetch[hash(tasks[t].userName)]]) > 0
        /\ tasks[t].outcome = NO_USER_FOUND(tasks[t].userName)

\* C7: followUser with discovered peers whose fetches all fail ends in the
\* one outcome NO_AVAILABLE_PEER_FOUND, after one fetch to every peer of the
\* list, announces nothing and leaves the store as it is.
C7_NoAvailablePeer ==
    [][ \A t \in FollowTasks :
          /\ (tasks[t].pc = "get" /\ tasks'[t] # tasks[t]
                /\ tasks'[t].fetched = NoData)
             => /\ StoreUnchanged /\ announces' = announces
                /\ IF tasks[t].i < Len(arrays[tasks[t].foundPeers])
                   THEN tasks'[t].pc = "get" /\ tasks'[t].i = tasks[t].i + 1
                        /\ tasks'[t].outcome = Pending
                   ELSE tasks'[t].pc = "done"
                        /\ tasks'[t].outcome = rejected("NO_AVAILABLE_PEER_FOUND")
          /\ (tasks[t].outcome = Pending
                /\ tasks'[t].outcome = rejected("NO_AVAILABLE_PEER_FOUND"))
             => /\ tasks'[t].i = Len(arrays[tasks'[t].foundPeers])
                /\ requestsBy(t)' = fetchesInOrder(t, tasks[t].i)'
                /\ announcesBy(t)' = << >>
                /\ StoreUnchanged
          /\ (tasks[t].outcome = rejected("NO_AVAILABLE_PEER_FOUND"))
             => /\ tasks'[t] = tasks[t]
                /\ requestsBy(t)' = requestsBy(t)
                /\ announcesBy(t)' = << >> ]_vars

\* both peers of a list were tried, both failed
C7_Witness ==
    \E t \in FollowTasks :
        /\ tasks[t].outcome = rejected("NO_AVAILABLE_PEER_FOUND")
        /\ Len(requestsBy(t)) = 2
        /\ requestsBy(t)[1].host # requestsBy(t)[2].host

(* ------------------------- claims: updateTimeline ----------------------- *)
UpdateTasks == { t \in DOMAIN tasks : tasks[t].op = "update" }

\* the call asked some peer for the full timeline
fetchedFull(t) == \E k \in DOMAIN requests :
    requests[k].task = t /\ requests[k].path = "timeline"

\* some last-update query of the call failed to communicate
someQueryFailed(t) ==
    \E k \in DOMAIN tasks[t].reports : tasks[t].reports[k][1] = "failed"

\* some candidate reported a lastUpdated strictly greater than the last
\* update the call read from the local copy
someCandidateNewer(t) ==
    \E k \in DOMAIN tasks[t].reports :
        /\ tasks[t].reports[k][1] = "ok"
        /\ tasks[t].reports[k][2] > tasks[t].local

\* C3, for the replacement updateTimeline makes from a peer that serves a
\* timeline at least as recent as the lastUpdated it reported: the timeline
\* installed has a trailing timestamp strictly greater than lastUpdated(u)
\* as it is at the moment of the replacement, whatever pushes were accepted
\* while the pull was in flight.
C3_PullInstallsNewer ==
    [][ \A t \in UpdateTasks :
          ( /\ tasks[t].pc = "full"
            /\ tasks'[t].pc = "done"
            /\ Len(tasks'[t].fetched.content) > 0
            /\ trailingTimestamp(tasks'[t].fetched.content)
                 >= tasks[t].mostRecentTimelineUpdate )
          => lastUpdated(following', timeline', tasks[t].userName)
               > lastUpdated(following, timeline, tasks[t].userName) ]_vars

\* C4: when a last-update query of updateTimeline fails to communicate, the
\* call is rejected with the communication error, fetches no full timeline,
\* replaces nothing and announces nothing, whatever the other candidates
\* report.
C4_QueryFailureAborts ==
    \A t \in UpdateTasks :
        someQueryFailed(t)
        => /\ tasks[t].outcome = rejected("UNEXPECTED_ERROR_WHILE_UPDATING")
           /\ ~fetchedFull(t)
           /\ tasks[t].fetched = NoData
           /\ announcesBy(t) = << >>

\* C10: updateTimeline fetches a full timeline, replaces the followed copy or
\* announces only when some candidate reported a lastUpdated strictly greater
\* than the last update it read from the local copy; when none did, it ends
\* without having changed the store.
C10_PullOnlyIfNewer ==
    [][ \A t \in UpdateTasks :
          \* the value the call compares with is lastUpdated(u) as it read it
          /\ (tasks[t].pc = "lookup" /\ tasks'[t].foundPeers # 0)
             => tasks'[t].local =
                  lastUpdated(following, timeline, tasks[t].userName)
          /\ ( \/ fetchedFull(t)'
               \/ tasks'[t].pc \in {"full", "threw"}
               \/ tasks'[t].fetched # NoData
               \/ announcesBy(t)' # << >> )
             => someCandidateNewer(t)'
          /\ (tasks'[t] # tasks[t] /\ ~someCandidateNewer(t)')
             => /\ StoreUnchanged
                /\ announces' = announces
          /\ ( /\ tasks'[t].foundPeers # 0
               /\ tasks'[t].i = Len(arrays'[tasks'[t].foundPeers])
               /\ Len(tasks'[t].reports) = tasks'[t].i
               /\ ~someCandidateNewer(t)' )
             => /\ tasks'[t].pc = "done"
                /\ tasks'[t].outcome =
                     IF someQueryFailed(t)'
                     THEN rejected("UNEXPECTED_ERROR_WHILE_UPDATING")
                     ELSE resolved("DONE_UPDATE") ]_vars

\* a call ended as a no-op although a candidate reported exactly the local
\* last update, which was not 0
C10_Witness ==
    \E t \in UpdateTasks :
        /\ tasks[t].pc = "done"
        /\ tasks[t].local >= 1
        /\ \E k \in DOMAIN tasks[t].reports :
             tasks[t].reports[k] = << "ok", tasks[t].local >>
        /\ ~someCandidateNewer(t)
        /\ tasks[t].outcome = resolved("DONE_UPDATE")
        /\ ~fetchedFull(t)
        /\ announcesBy(t) = << >>

\* the full-timeline fetches of a call
fullFetchesBy(t) == SelectSeq(requestsBy(t), LAMBDA r : r.path = "timeline")

\* the candidates of a call whose last-update query answered
answered(t) ==
    { k \in DOMAIN tasks[t].reports : tasks[t].reports[k][1] = "ok" }

\* the greatest lastUpdated a candidate of the call reported
maxReported(t) ==
    CHOOSE v \in { tasks[t].reports[k][2] : k \in answered(t) } :
        \A k \in answered(t) : tasks[t].reports[k][2] <= v

\* the first candidate, in discovery order, that reported the maximum
firstAtMax(t) ==
    CHOOSE k \in answered(t) :
        /\ tasks[t].reports[k][2] = maxReported(t)
        /\ \A j \in answered(t) :
             tasks[t].reports[j][2] = maxReported(t) => k <= j

\* C11: when updateTimeline pulls, it fetches the full timeline from exactly
\* one candidate: the first, in discovery order, of those that reported the
\* maximum lastUpdated over all candidates, and that maximum is strictly
\* greater than the local value.
C11_PullsFromFirstMax ==
    \A t \in UpdateTasks :
        fetchedFull(t)
        => /\ Len(fullFetchesBy(t)) = 1
           /\ answered(t) # {}
           /\ maxReported(t) > tasks[t].local
           /\ fullFetchesBy(t)[1].host =
                arrays[tasks[t].foundPeers][firstAtMax(t)].host
           /\ fullFetchesBy(t)[1].port =
                arrays[tasks[t].foundPeers][firstAtMax(t)].port

\* two candidates tied at the maximum and the first of them was fetched from
C11_Witness ==
    \E t \in UpdateTasks :
        /\ fetchedFull(t)
        /\ Len(tasks[t].reports) = 2
        /\ tasks[t].reports[1] = tasks[t].reports[2]
        /\ tasks[t].reports[1][1] = "ok"
        /\ tasks[t].local >= 1
        /\ fullFetchesBy(t)[1].host = arrays[tasks[t].foundPeers][1].host
        /\ arrays[tasks[t].foundPeers][1] # arrays[tasks[t].foundPeers][2]

(* --------------------------- claims: syncTimeline ----------------------- *)
PropagateTasks == { t \in DOMAIN tasks : tasks[t].op = "propagate" }

\* the call failed: it rejected, or its callback threw
updateFailed(t) ==
    tasks[t].outcome.state = "rejected" \/ tasks[t].pc = "threw"

\* the next step of a call that is not over
stepOf(t) ==
    \/ \E e \in BOOLEAN, n \in PeerCounts : UpdateLookupDone(t, e, n)
    \/ \E v \in SyncReports : UpdateMetaOk(t, v)
    \/ UpdateMetaFail(t)
    \/ \E d \in SyncData : UpdateFullOk(t, d)
    \/ UpdateFullFail(t)
    \/ PropagateSigned(t)
    \/ \E e \in BOOLEAN, n \in PeerCounts : PropagateLookupDone(t, e, n)
    \/ \E r \in PutResults : PropagatePutDone(t, r)

\* what a step that is a syncTimeline call adds to the tasks: one pull a
\* followed user, each with its own empty slot, then one propagation of the
\* local timeline
syncStarted ==
    LET n == Len(tasks)
        m == Cardinality(DOMAIN following)
    IN  /\ Len(tasks') = n + m + 1
        /\ \A k \in 1..n : tasks'[k] = tasks[k]
        /\ \A k \in (n + 1)..(n + m) :
             /\ tasks'[k].op = "update"
             /\ tasks'[k].pc = "lookup"
             /\ tasks'[k].userName \in DOMAIN following
             /\ hash(tasks'[k].userName) \in DOMAIN pendingPeerFetch'
             /\ arrays'[pendingPeerFetch'[hash(tasks'[k].userName)]] = << >>
        /\ \A u \in DOMAIN following :
             Cardinality({ k \in (n + 1)..(n + m) : tasks'[k].userName = u }) = 1
        /\ tasks'[n + m + 1].op = "propagate"
        /\ tasks'[n + m + 1].userName = Self
        /\ tasks'[n + m + 1].signedTimeline = [valid |-> TRUE, timeline |-> timeline]
        /\ \A k \in (n + 1)..(n + m) : tasks'[k].outcome = Pending

\* C12: a syncTimeline call starts exactly one updateTimeline for each user
\* followed at the time of the call and then exactly one propagation of the
\* local timeline (no pull and one propagation when nobody is followed); a
\* step of one call changes no other call, and whatever calls have failed,
\* every call that is not over can take its next step.
C12_SyncStartsAll ==
    [][ /\ calls("sync")' # calls("sync") => syncStarted
        /\ \A t \in DOMAIN tasks :
             tasks'[t] # tasks[t]
             => \A other \in DOMAIN tasks \ {t} : tasks'[other] = tasks[other]
        /\ \A t \in DOMAIN tasks :
             tasks[t].pc \notin {"done", "threw"} => ENABLED stepOf(t) ]_vars

\* two users are followed; the pull of one failed, the pull of the other
\* installed a timeline and the propagation pushed to a peer
C12_Witness ==
    \E failed, other \in UpdateTasks, p \in PropagateTasks :
        /\ failed # other
        /\ updateFailed(failed)
        /\ tasks[other].outcome = resolved("DONE_UPDATE")
        /\ fetchedFull(other)
        /\ following[tasks[other].userName] # << >>
        /\ tasks[p].caller = "sync"
        /\ tasks[p].pc = "done"
        /\ Len(requestsBy(p)) = 1

(* ------------------------ claims: getMergedTimeline --------------------- *)
\* how many entries of a sequence are the given value
countIn(arr, x) == Cardinality({ k \in DOMAIN arr : arr[k] = x })

RECURSIVE totalLength(_, _)
totalLength(fol, users) ==
    IF users = {} THEN 0
    ELSE LET u == CHOOSE u \in users : TRUE
         IN  Len(fol[u]) + totalLength(fol, users \ {u})

\* what a getMergedTimeline call returned, against the timelines it read
mergedOf(lines, fol, tl) ==
    /\ Len(lines) = Len(tl) + totalLength(fol, DOMAIN fol)
    /\ \A msg \in Message :
         /\ countIn(lines, [content |-> msg.content, timestamp |-> msg.timestamp,
                            userName |-> Self])
              = countIn(tl, msg)
         /\ \A u \in DOMAIN fol :
              countIn(lines, [content |-> msg.content,
                              timestamp |-> msg.timestamp, userName |-> u])
                = countIn(fol[u], msg)
    /\ \A i, j \in DOMAIN lines :
         i < j => lines[i].timestamp <= lines[j].timestamp

\* C13: getMergedTimeline returns as many entries as the local timeline and
\* the followed timelines hold together, every local message tagged with the
\* node's own name and every followed message with its owner's name, in
\* ascending order of timestamp, and leaves the local and the followed
\* timelines as they were.
C13_MergedTimeline ==
    [][ merged' # merged
        => /\ merged'.called
           /\ mergedOf(merged'.mergedTimeline, following, timeline)
           /\ timeline' = timeline
           /\ following' = following ]_vars

\* a merge of a local timeline and two followed ones, all with messages, that
\* the sort had to reorder
C13_Witness ==
    /\ merged.called
    /\ Len(timeline) >= 2
    /\ Cardinality(DOMAIN following) = 2
    /\ \A u \in DOMAIN following : following[u] # << >>
    /\ \E i, j \in DOMAIN merged.mergedTimeline :
         /\ i < j
         /\ merged.mergedTimeline[i].userName # Self
         /\ merged.mergedTimeline[j].userName = Self
    /\ \E i \in DOMAIN merged.mergedTimeline :
         /\ i < Len(merged.mergedTimeline)
         /\ merged.mergedTimeline[i].timestamp
              = merged.mergedTimeline[i + 1].timestamp
         /\ merged.mergedTimeline[i].userName
              # merged.mergedTimeline[i + 1].userName

(* ----------------------- claims: discovery correlator ------------------- *)
\* the lookup key of the last notification, and the address it reports
lastKey == << "hex", lastFound.infoHash[2] >>
lastAddress == [host |-> lastFound.peer.host, port |-> lastFound.peer.port]

\* C14: a found-peer notification for a key that has no slot changes nothing
\* and raises no error; for a key that has a slot it appends exactly
\* {host, port} of the peer at the end of that slot's list, and changes no
\* other list, no slot and nothing else.
C14_OnPeerFound ==
    [][ lastFound' # lastFound
        => /\ UNCHANGED << timeline, following, pendingPeerFetch, tasks,
                           requests, announces, ingress, nPush, merged >>
           /\ IF lastKey' \notin DOMAIN pendingPeerFetch
              THEN arrays' = arrays
              ELSE arrays' = [arrays EXCEPT ![pendingPeerFetch[lastKey']] =
                                Append(@, lastAddress')] ]_vars

\* the last notification was for a key without a slot, after two
\* notifications were appended to the list of a key with a slot
C14_Witness ==
    /\ lastFound # NoFound
    /\ lastKey \notin DOMAIN pendingPeerFetch
    /\ \E k \in DOMAIN pendingPeerFetch :
         /\ Len(arrays[pendingPeerFetch[k]]) = 2
         /\ arrays[pendingPeerFetch[k]][1] # arrays[pendingPeerFetch[k]][2]

(* ------------------------- claims: postNewMessage ----------------------- *)
\* what holds of a postNewMessage call: its snapshot is signed and ends with
\* the posted message, every request it made is a PUT of that snapshot, and
\* once the lookup is issued it has returned the outcome of the append
postState(t) ==
    /\ tasks[t].op = "propagate"
    /\ tasks[t].userName = Self
    /\ tasks[t].signedTimeline.valid
    /\ Len(tasks[t].signedTimeline.timeline) >= 1
    /\ tasks[t].signedTimeline.timeline[Len(tasks[t].signedTimeline.timeline)]
         = tasks[t].message
    /\ \A k \in DOMAIN requestsBy(t) :
         /\ requestsBy(t)[k].method = "PUT"
         /\ requestsBy(t)[k].userName = Self
         /\ requestsBy(t)[k].body = tasks[t].signedTimeline
    /\ tasks[t].returned =
         IF tasks[t].pc = "sign" THEN "none" ELSE tasks[t].published

\* C15: postNewMessage appends the message and then starts the propagation,
\* whatever outcome the append reported; the snapshot the propagation pushes
\* holds the new message, and the call returns the outcome of the append.
C15_PostThenPropagate ==
    [][ /\ timeline' # timeline
           => /\ Len(tasks') = Len(tasks) + 1
              /\ tasks'[Len(tasks')].caller = "post"
              /\ tasks'[Len(tasks')].pc = "sign"
              /\ tasks'[Len(tasks')].published \in PublishOutcomes
              /\ timeline' = Append(timeline, tasks'[Len(tasks')].message)
        /\ \A t \in DOMAIN tasks' :
             tasks'[t].caller = "post" => postState(t)' ]_vars

\* a post whose append reported "unsaved" pushed its snapshot to two peers
\* and returned "unsaved"
C15_Witness ==
    \E t \in DOMAIN tasks :
        /\ tasks[t].caller = "post"
        /\ tasks[t].published = "unsaved"
        /\ tasks[t].returned = "unsaved"
        /\ tasks[t].pc = "done"
        /\ Len(requestsBy(t)) = 2
        /\ requestsBy(t)[1].body.timeline = << tasks[t].message >>

(* ------------------------ claims: late notifications -------------------- *)
\* every lookup issued for the key has had its completion callback run, and
\* there has been one
lookupResolved(key) ==
    /\ \E t \in DOMAIN tasks :
         hash(tasks[t].userName) = key /\ tasks[t].completion # NoCompletion
    /\ \A t \in DOMAIN tasks :
         hash(tasks[t].userName) = key
         => tasks[t].completion # NoCompletion

\* C16: a found-peer notification for a key whose lookup has resolved (its
\* completion callback has run) is dropped: it changes neither the table of
\* slots nor any list.
C16_LateNotificationDropped ==
    [][ lastFound' # lastFound /\ lookupResolved(lastKey')
        => arrays' = arrays /\ pendingPeerFetch' = pendingPeerFetch ]_vars

(* --------------------------- claims: lookups ---------------------------- *)
\* the lookups issued for the key whose completion callback has not run
inFlight(key) ==
    { t \in DOMAIN tasks :
        hash(tasks[t].userName) = key /\ tasks[t].pc = "lookup" }

\* the step issues the lookup of the call
issues(t) ==
    /\ tasks'[t].pc = "lookup"
    /\ t \in DOMAIN tasks => tasks[t].pc # "lookup"

\* C17: the step that issues a lookup for a key has set the slot of the key
\* to an empty list; while that lookup is the only one in flight for the key,
\* a step either leaves the list of the slot as it is or is a notification
\* for the key that appends the notified address at its end; and the
\* completion of the lookup changes no list and reads the list of the slot.
\* So the list read holds, in the order of arrival, the peers notified for
\* the key between the issue and the completion.
C17_ListOfOneLookup ==
    [][ \A t \in DOMAIN tasks' :
          /\ issues(t)
             => /\ hash(tasks'[t].userName) \in DOMAIN pendingPeerFetch'
                /\ arrays'[pendingPeerFetch'[hash(tasks'[t].userName)]] = << >>
          /\ (t \in DOMAIN tasks /\ inFlight(hash(tasks'[t].userName)) = {t})
             => LET key == hash(tasks[t].userName)
                    list == arrays[pendingPeerFetch[key]]
                IN  IF tasks'[t].pc = "lookup"
                    THEN /\ pendingPeerFetch'[key] = pendingPeerFetch[key]
                         /\ \/ /\ arrays'[pendingPeerFetch[key]] = list
                               /\ ~ (lastFound' # lastFound /\ lastKey' = key)
                            \/ /\ arrays'[pendingPeerFetch[key]] =
                                    Append(list, lastAddress')
                               /\ lastKey' = key
                    ELSE /\ arrays' = arrays
                         /\ pendingPeerFetch' = pendingPeerFetch
                         /\ tasks'[t].foundPeers \in {0, pendingPeerFetch[key]}
                         /\ tasks'[t].completion.error = FALSE
                              /\ tasks'[t].completion.nFoundClients # 0
                            => tasks'[t].foundPeers = pendingPeerFetch[key]
      ]_vars

\* two lookups for the same key, one after the other: the first read a list
\* of two peers, the second read a new list that holds the one peer notified
\* after its issue, and pushed to that peer only
C17_Witness ==
    \E first, second \in DOMAIN tasks :
        /\ tasks[first].pc = "done" /\ tasks[second].pc = "done"
        /\ tasks[first].foundPeers = 1
        /\ tasks[second].foundPeers = 2
        /\ Len(arrays[1]) = 2
        /\ Len(arrays[2]) = 1
        /\ arrays[2][1] = lastAddress
        /\ arrays[1][2] = lastAddress
        /\ Len(requestsBy(first)) = 2
        /\ Len(requestsBy(second)) = 1
        /\ requestsBy(second)[1].host = lastFound.peer.host

\* the completion callback of the call ran in this step and went on to read
\* the list
completes(t) ==
    /\ t \in DOMAIN tasks
    /\ tasks[t].pc = "lookup"
    /\ tasks'[t].pc # "lookup"
    /\ ~ tasks'[t].completion.error
    /\ tasks'[t].completion.nFoundClients # 0

\* C18: when a lookup for a name is issued while another lookup for that name
\* is outstanding, the slot gets a new empty list and the addresses collected
\* so far are no longer in it; every completion reads the list the slot holds
\* when it runs, so the completions of both lookups that run after the second
\* issue read the same list.
C18_OverlappingLookups ==
    [][ \A t \in DOMAIN tasks' :
          LET key == hash(tasks'[t].userName)
          IN  /\ issues(t) /\ inFlight(key) # {}
                 => /\ pendingPeerFetch'[key] # pendingPeerFetch[key]
                    /\ pendingPeerFetch'[key] \notin DOMAIN arrays
                    /\ arrays'[pendingPeerFetch'[key]] = << >>
                    /\ \A id \in DOMAIN arrays : arrays'[id] = arrays[id]
                    /\ \A other \in inFlight(key) : tasks'[other] = tasks[other]
              /\ completes(t)
                 => /\ tasks'[t].foundPeers = pendingPeerFetch[key]
                    /\ pendingPeerFetch'[key] = pendingPeerFetch[key]
      ]_vars

\* two lookups for the same name overlapped: a peer was notified before the
\* second was issued, another after it; both completions read the second
\* list, and both calls pushed to the second peer only
C18_Witness ==
    \E first, second \in DOMAIN tasks :
        /\ first # second
        /\ tasks[first].userName = tasks[second].userName
        /\ tasks[first].pc = "done" /\ tasks[second].pc = "done"
        /\ tasks[first].foundPeers = 2 /\ tasks[second].foundPeers = 2
        /\ Len(arrays[1]) = 1 /\ Len(arrays[2]) = 1
        /\ arrays[1][1] # arrays[2][1]
        /\ Len(requestsBy(first)) = 1 /\ Len(requestsBy(second)) = 1
        /\ requestsBy(first)[1].host = arrays[2][1].host
        /\ requestsBy(second)[1].host = arrays[2][1].host

(* ---------------------- claims: _propagateTimeline ---------------------- *)
\* one PUT /timeline/:userName of the snapshot of the call to each of the
\* first n peers of the list the call iterates, in the order of the list
putsInOrder(t, n) ==
    [ k \in 1..n |->
        [ task |-> t, method |-> "PUT", path |-> "timeline",
          host |-> arrays[tasks[t].foundPeers][k].host,
          port |-> arrays[tasks[t].foundPeers][k].port,
          userName |-> tasks[t].userName, body |-> tasks[t].signedTimeline ] ]

\* the lookup of the call completed with an error or without a peer
lookupFailed(t) ==
    /\ tasks[t].completion # NoCompletion
    /\ tasks[t].completion.error \/ tasks[t].completion.nFoundClients = 0

\* what holds of a propagation at any time: it made one PUT of its snapshot
\* to each peer it has visited, in the order of the list, none when its
\* lookup failed, and its caller has seen no failure
propagateState(t) ==
    /\ requestsBy(t) = putsInOrder(t, tasks[t].i)
    /\ lookupFailed(t) => tasks[t].pc = "done" /\ requestsBy(t) = << >>
    /\ tasks[t].outcome =
         IF tasks[t].pc = "sign" THEN Pending ELSE resolved("undefined")
    /\ tasks[t].pc = "put" => Len(tasks[t].reports) = tasks[t].i - 1
    /\ tasks[t].pc = "done" /\ ~ lookupFailed(t)
         => Len(tasks[t].reports) = tasks[t].i

\* C19: a propagation whose lookup completes without error and with a count
\* that is not zero makes one PUT of the signed snapshot to every peer of the
\* pending list: whatever a PUT comes back with, the next peer of the list is
\* pushed to, no peer is pushed to twice, and the caller sees no failure; the
\* loop ends when every peer of the list has been pushed to.  A lookup that
\* completes with an error or a count of zero leads to no PUT.
C19_PushToEveryPeer ==
    [][ \A t \in DOMAIN tasks' :
          tasks'[t].op = "propagate"
          => /\ propagateState(t)'
             /\ (t \in DOMAIN tasks /\ tasks[t].pc = "put" /\ tasks'[t] # tasks[t])
                => IF tasks[t].i < Len(arrays[tasks[t].foundPeers])
                   THEN tasks'[t].pc = "put" /\ tasks'[t].i = tasks[t].i + 1
                   ELSE tasks'[t].pc = "done"
             /\ (t \in DOMAIN tasks /\ tasks[t].pc # "done"
                   /\ tasks'[t].pc = "done" /\ ~ lookupFailed(t)')
                => tasks'[t].i = Len(arrays'[tasks'[t].foundPeers]) ]_vars

\* a propagation pushed to two peers: the first PUT failed, the second was
\* refused with 403, and the call is over without a failure surfaced
C19_Witness ==
    \E t \in PropagateTasks :
        /\ tasks[t].pc = "done"
        /\ tasks[t].reports = << << "failed", 0 >>, << "403", 0 >> >>
        /\ Len(requestsBy(t)) = 2
        /\ requestsBy(t)[1].host # requestsBy(t)[2].host
        /\ tasks[t].outcome = resolved("undefined")

(* --------------------------- claims: settlement ------------------------- *)
\* C20: a followUser or updateTimeline call whose lookup has completed and
\* whose requests have all been answered or have failed is settled, resolved
\* or rejected; in particular a call whose fetch of the full timeline failed
\* is rejected, and the followed copy is as the call found it.
C20_CallsSettle ==
    \A t \in FollowTasks \cup UpdateTasks :
        /\ tasks[t].pc \in {"done", "threw"}
           => tasks[t].outcome.state \in {"resolved", "rejected"}
        /\ tasks[t].pc = "threw"
           => /\ tasks[t].outcome.state = "rejected"
              /\ tasks[t].fetched = NoData
====
